---- MODULE Spec2Model ----
(***************************************************************************)
(* A model of two LIT client modules:                                      *)
(*   - ClassificationModule (classification_module.ts): parseResult,       *)
(*     updateSelection, renderImpl and renderFeatureTable;                 *)
(*   - SliceModule (core/slice_module.ts): the slice editor handlers on    *)
(*     top of the SliceService / GroupService contracts.                   *)
(*                                                                         *)
(* Scores are fixed-point numbers in thousandths (0.01 is 10, 0.795 is     *)
(* 795), so comparisons and abs(a - b) are exact.  Names that the code     *)
(* concatenates or tests with startsWith (model names, column names,       *)
(* feature names) are sequences of string chunks; class labels are plain   *)
(* strings.  A nullable value v is the record [some |-> FALSE, ...] for    *)
(* null/undefined and [some |-> TRUE, val |-> v] otherwise.                *)
(***************************************************************************)
EXTENDS Integers, Sequences, FiniteSets, TLC

(***************************************************************************)
(* Bounds                                                                  *)
(***************************************************************************)
\* Number of rows (datapoints) of the loaded dataset; their ids are 1..NumRows.
NumRows == 2

RowIds == 1..NumRows

(***************************************************************************)
(* ClassificationModule: constants and collaborators                       *)
(***************************************************************************)
\* const SPARSE_MODE_THRESHOLD = 0.01, in thousandths.
SPARSE_MODE_THRESHOLD == 10

\* The vocabulary size above which renderImpl offers the sparse-mode switch
\* (fs.vocab.length > 10).
SPARSE_SWITCH_VOCAB == 10

NoneSeq == [some |-> FALSE, val |-> <<>>]
SomeSeq(s) == [some |-> TRUE, val |-> s]
NoneStr == [some |-> FALSE, val |-> ""]
SomeStr(s) == [some |-> TRUE, val |-> s]

\* DisplayInfo.color when the property is absent or undefined.
NoColor == "undefined"

SeqRange(s) == {s[k] : k \in 1..Len(s)}

\* An 11-entry vocabulary, large enough for the sparse-mode switch.
BigVocab == [k \in 1..(SPARSE_SWITCH_VOCAB + 1) |-> "c" \o ToString(k)]

\* Field kinds of an output spec.
MulticlassPreds == "MulticlassPreds"
Scalar == "Scalar"

M0 == <<"m0">>
M1 == <<"m1">>
M2 == <<"m2">>
Models == {M0, M1, M2}

LabelFeature == <<"label">>

\* appState.getModelSpec(model).output, as the ordered list of its fields.
\*   m1: head "p" over [a, b, c] with ground truth in feature "label", and
\*       head "big" over 11 classes without ground truth;
\*   m2: head "q" that declares no vocabulary;
\*   m0: no classification head at all (one scalar output).
getModelSpec(model) ==
    IF model = M1 THEN
        << [key |-> <<"p">>, kind |-> MulticlassPreds,
            parent |-> SomeSeq(LabelFeature), vocab |-> SomeSeq(<<"a", "b", "c">>)],
           [key |-> <<"big">>, kind |-> MulticlassPreds,
            parent |-> NoneSeq, vocab |-> SomeSeq(BigVocab)] >>
    ELSE IF model = M2 THEN
        << [key |-> <<"q">>, kind |-> MulticlassPreds,
            parent |-> NoneSeq, vocab |-> NoneSeq] >>
    ELSE
        << [key |-> <<"s">>, kind |-> Scalar,
            parent |-> NoneSeq, vocab |-> NoneSeq] >>

\* findSpecKeys(output, MulticlassPreds): the fields of the wanted kind, in order.
findSpecKeys(output, kind) == SelectSeq(output, LAMBDA f : f.kind = kind)

\* CalculatedColumnType
PREDICTED_CLASS == "class"
CORRECT == "correct"

\* dataService.getColumnName(model, predKey, type?)
getColumnName(model, predKey, type) ==
    IF type = "" THEN model \o <<":">> \o predKey
    ELSE model \o <<":">> \o predKey \o <<":">> \o <<type>>

\* String.prototype.startsWith on chunked names.
StartsWith(name, prefix) ==
    /\ Len(prefix) <= Len(name)
    /\ SubSeq(name, 1, Len(prefix)) = prefix

\* The dataset: the value of feature "label" of each row.
RowLabel(id) == <<"a", "b", "c">>[((id - 1) % 3) + 1]

\* The backend's score vector of a row for a head, once its predictions are in.
BackendScores(id, colName) ==
    IF colName = getColumnName(M1, <<"p">>, "") THEN
        << <<5, 200, 795>>, <<300, 10, 690>>, <<800, 9, 191>> >>[((id - 1) % 3) + 1]
    ELSE IF colName = getColumnName(M2, <<"q">>, "") THEN
        << <<300, 700>>, <<995, 5>> >>[((id - 1) % 2) + 1]
    ELSE
        [k \in 1..(SPARSE_SWITCH_VOCAB + 1) |->
            IF k = id THEN 600 ELSE IF k = id + 1 THEN 391 ELSE 1]

\* The backend's predicted class of a row for a head.
BackendClass(id, colName) ==
    IF colName = getColumnName(M1, <<"p">>, PREDICTED_CLASS) THEN
        <<"c", "c", "a">>[((id - 1) % 3) + 1]
    ELSE IF colName = getColumnName(M2, <<"q">>, PREDICTED_CLASS) THEN
        <<"1", "0">>[((id - 1) % 2) + 1]
    ELSE BigVocab[id]

ScoreColumns == {getColumnName(M1, <<"p">>, ""), getColumnName(M1, <<"big">>, ""),
                 getColumnName(M2, <<"q">>, "")}
ClassColumns == {getColumnName(M1, <<"p">>, PREDICTED_CLASS),
                 getColumnName(M1, <<"big">>, PREDICTED_CLASS),
                 getColumnName(M2, <<"q">>, PREDICTED_CLASS)}

\* The color options of the color service: name and scale.range().
ColorOptions ==
    { [name |-> <<"None">>, range |-> <<"grey">>],
      [name |-> getColumnName(M1, <<"p">>, PREDICTED_CLASS),
       range |-> <<"k0", "k1", "k2">>],
      [name |-> getColumnName(M1, <<"p">>, CORRECT), range |-> <<"wrong", "right">>],
      [name |-> LabelFeature, range |-> <<"l0", "l1", "l2">>] }

\* The lists of current models the application can show.
ModelLists == { <<M1>>, <<M1, M2>>, <<M1, M0>> }

NoRow == 0

\* The feature names of appState.currentDatasetSpec.
currentDatasetSpec == {LabelFeature}

(***************************************************************************)
(* The reactive inputs of the module are gathered in a record s:           *)
(*   compare, models, color, pinned, selected, data, sparse                *)
(* (the dependency list of connectedCallback).                             *)
(***************************************************************************)

\* dataService.getVal(id, key) on the store s.data.
getVal(s, id, key) ==
    IF key \in ScoreColumns THEN
        IF s.data[id] THEN SomeSeq(BackendScores(id, key)) ELSE NoneSeq
    ELSE IF key \in ClassColumns THEN
        IF s.data[id] THEN SomeStr(BackendClass(id, key)) ELSE NoneStr
    ELSE IF key = LabelFeature THEN SomeStr(RowLabel(id))
    ELSE NoneStr

\* `${k}` for the class indices 0 .. n-1.
indexLabels(n) == [k \in 1..n |-> ToString(k - 1)]

\* colorRange[idx] for a zero-based idx; undefined past the end.
colorAt(colorRange, idx) ==
    IF idx + 1 <= Len(colorRange) THEN colorRange[idx + 1] ELSE NoColor

\* A filter that drops a score equal to the threshold (> for >=).
passesSparseFilter_Strict(sparse, value) == (~sparse) \/ value > SPARSE_MODE_THRESHOLD

\* The test that lets a scored class through: not sparse, or at the threshold.
passesSparseFilter(sparse, value) == (~sparse) \/ value >= SPARSE_MODE_THRESHOLD

\* A placeholder that is pushed in sparse mode too.
keepsNullScores_Always(sparse) == TRUE

\* Whether an input whose scores are null gets a DisplayInfo: only when
\* not in sparse mode.
keepsNullScores(sparse) == ~sparse

\* An entry for every label, also one that kept no DisplayInfo.
keepsLabel_Always(rowPreds) == TRUE

\* Whether a label gets an entry in the head's table: only when it kept at
\* least one DisplayInfo (if (rowPreds.length) ...).
keepsLabel(rowPreds) == Len(rowPreds) > 0

\* The DisplayInfo pushed for an input whose scores are null.
nullDisplayInfo(inputIdx) ==
    [value |-> 0, isPredicted |-> FALSE, isTruth |-> FALSE, color |-> NoColor,
     inputIdx |-> inputIdx]

\* A coloring that takes the class index for the correctness column too.
displayColor_ByIndex(applyColor, colorOption, predCorrectKey, colorRange, isTruth, i) ==
    IF ~applyColor THEN NoColor ELSE colorAt(colorRange, i - 1)

\* The color of a DisplayInfo: by correctness for the correctness column,
\* by class index otherwise; none when the option is not colorable.
displayColor(applyColor, colorOption, predCorrectKey, colorRange, isTruth, i) ==
    IF ~applyColor THEN NoColor
    ELSE IF colorOption.name = predCorrectKey
         THEN colorAt(colorRange, IF isTruth THEN 1 ELSE 0)
         ELSE colorAt(colorRange, i - 1)

\* One pass of the loop over inputData for the label at (one-based) index i:
\* the DisplayInfo pushed for input d, as a list of zero or one element.
\* inputIdx is not a field of DisplayInfo: it records which entry of inputs
\* the DisplayInfo was made from, for the properties below.
rowPredOf(s, d, label, i, applyColor, predCorrectKey, colorRange) ==
    IF ~d.predScores.some THEN
        IF keepsNullScores(s.sparse) THEN << nullDisplayInfo(d.inputIdx) >> ELSE << >>
    ELSE
        LET value == d.predScores.val[i]
            isPredicted == d.predClass.some /\ label = d.predClass.val
            isTruth == d.truth.some /\ d.truth.val = label
        IN  IF passesSparseFilter(s.sparse, value) THEN
                << [value |-> value, isPredicted |-> isPredicted, isTruth |-> isTruth,
                    color |-> displayColor(applyColor, s.color, predCorrectKey,
                                           colorRange, isTruth, i),
                    inputIdx |-> d.inputIdx] >>
            ELSE << >>

RECURSIVE rowPredsFrom(_, _, _, _, _, _, _, _)
\* rowPreds after the loop over inputData[k..].
rowPredsFrom(s, inputData, k, label, i, applyColor, predCorrectKey, colorRange) ==
    IF k > Len(inputData) THEN << >>
    ELSE rowPredOf(s, inputData[k], label, i, applyColor, predCorrectKey, colorRange)
         \o rowPredsFrom(s, inputData, k + 1, label, i, applyColor, predCorrectKey,
                         colorRange)

RECURSIVE labelRowsFrom(_, _, _, _, _, _, _)
\* labeledPredictions[topLevelKey] after labels.forEach over labels[i..]:
\* a list of [label, rows], one per label that kept at least one row.
labelRowsFrom(s, inputData, labels, i, applyColor, predCorrectKey, colorRange) ==
    IF i > Len(labels) THEN << >>
    ELSE LET rowPreds == rowPredsFrom(s, inputData, 1, labels[i], i, applyColor,
                                      predCorrectKey, colorRange)
             tail == labelRowsFrom(s, inputData, labels, i + 1, applyColor,
                                   predCorrectKey, colorRange)
         IN  IF keepsLabel(rowPreds)
             THEN << [label |-> labels[i], rows |-> rowPreds] >> \o tail
             ELSE tail

\* inputs.map(i => ({predScores, predClass, truth})) for one head.
inputDataOf(s, model, field, inputs) ==
    [k \in 1..Len(inputs) |->
        [predScores |-> getVal(s, inputs[k], getColumnName(model, field.key, "")),
         predClass |-> getVal(s, inputs[k],
                              getColumnName(model, field.key, PREDICTED_CLASS)),
         truth |-> IF field.parent.some THEN getVal(s, inputs[k], field.parent.val)
                   ELSE NoneStr,
         inputIdx |-> k]]

\* Whether the head's pass raises a TypeError: no vocabulary, and
\* inputData[0].predScores is null when its length is read.
headThrows(s, model, field, inputs) ==
    (~field.vocab.some) /\ ~inputDataOf(s, model, field, inputs)[1].predScores.some

\* The entry of one head: its top-level key and its label rows.
parseHead(s, model, field, inputs) ==
    LET inputData == inputDataOf(s, model, field, inputs)
        predClassKey == getColumnName(model, field.key, PREDICTED_CLASS)
        predCorrectKey == getColumnName(model, field.key, CORRECT)
        labels == IF field.vocab.some THEN field.vocab.val
                  ELSE indexLabels(Len(inputData[1].predScores.val))
        colorableKeys == {predClassKey, predCorrectKey}
                           \cup (IF field.parent.some THEN {field.parent.val} ELSE {})
        applyColor == s.color.name \in colorableKeys
        colorRange == IF applyColor THEN s.color.range ELSE << >>
    IN  [key |-> getColumnName(model, field.key, ""),
         labelRows |-> labelRowsFrom(s, inputData, labels, 1, applyColor,
                                     predCorrectKey, colorRange)]

\* parseResult(model, inputs): threw, or the list of head entries in key order.
parseResult(s, model, inputs) ==
    LET multiclassKeys == findSpecKeys(getModelSpec(model), MulticlassPreds)
    IN  IF \E k \in 1..Len(multiclassKeys) : headThrows(s, model, multiclassKeys[k], inputs)
        THEN [threw |-> TRUE, val |-> << >>]
        ELSE [threw |-> FALSE,
              val |-> [k \in 1..Len(multiclassKeys) |->
                          parseHead(s, model, multiclassKeys[k], inputs)]]

HasKey(entries, key) == \E k \in 1..Len(entries) : entries[k].key = key

RECURSIVE ObjectAssign(_, _)
\* Object.assign(target, source) on key-ordered entry lists: a key of source
\* replaces the target's entry in place, a new key is appended.
ObjectAssign(target, source) ==
    IF Len(source) = 0 THEN target
    ELSE LET e == Head(source)
             t == IF HasKey(target, e.key)
                  THEN [k \in 1..Len(target) |->
                           IF target[k].key = e.key THEN e ELSE target[k]]
                  ELSE Append(target, e)
         IN  ObjectAssign(t, Tail(source))

\* The data list of updateSelection: the pinned row first (in comparison
\* mode), then the selected row.
selectionData(s) ==
    (IF s.compare /\ s.pinned # NoRow THEN << s.pinned >> ELSE << >>)
    \o (IF s.selected # NoRow THEN << s.selected >> ELSE << >>)

RECURSIVE updateModelsFrom(_, _, _, _)
\* The loop over appState.currentModels[k..], from labeledPredictions lp.
updateModelsFrom(s, data, k, lp) ==
    IF k > Len(s.models) THEN [lp |-> lp, threw |-> FALSE]
    ELSE LET r == parseResult(s, s.models[k], data)
         IN  IF r.threw THEN [lp |-> lp, threw |-> TRUE]
             ELSE updateModelsFrom(s, data, k + 1, ObjectAssign(lp, r.val))

\* updateSelection() on the stored labeledPredictions lp.
updateSelection(s, lp) ==
    LET data == selectionData(s)
    IN  IF Len(data) = 0 THEN [lp |-> << >>, threw |-> FALSE]
        ELSE updateModelsFrom(s, data, 1, lp)


(***************************************************************************)
(* Rendering                                                               *)
(***************************************************************************)
Abs(x) == IF x < 0 THEN 0 - x ELSE x

\* The delta pushed for a label with two values (values.length === 2):
\* Math.abs(pinned - selected); nothing otherwise.
rowDelta(values) ==
    IF Len(values) = 2 THEN << Abs(values[1].value - values[2].value) >> ELSE << >>

\* One row of the table: [label, ...values.map(renderDisplayInfo), delta?].
\* The label, the score cells and the delta are kept in separate fields;
\* the row's length is 1 + Len(cells) + Len(delta).
featureRow(entry) ==
    [label |-> entry.label, cells |-> entry.rows, delta |-> rowDelta(entry.rows)]

rowLength(row) == 1 + Len(row.cells) + Len(row.delta)

\* The column names chosen from rows[0].length and compareExamplesEnabled.
columnNamesOf(s, rows) ==
    IF rowLength(rows[1]) > 2
    THEN << "Class", "Score - Pinned", "Score - Selected", "Delta(Pinned, Selected)" >>
    ELSE IF s.compare THEN << "Class", "Score - Pinned" >>
    ELSE << "Class", "Score" >>

\* renderFeatureTable raises a TypeError on rows[0].length when labelRow has
\* no label at all.
featureTableThrows(labelRow) == Len(labelRow) = 0

\* renderFeatureTable(labelRow, hasGroundTruth) for a non-empty labelRow.
renderFeatureTable(s, labelRow) ==
    LET rows == [k \in 1..Len(labelRow) |-> featureRow(labelRow[k])]
    IN  [columnNames |-> columnNamesOf(s, rows), data |-> rows]

RECURSIVE clsFieldSpecsFrom(_, _)
\* currentModels.flatMap(model => the MulticlassPreds field specs of model).
clsFieldSpecsFrom(models, k) ==
    IF k > Len(models) THEN << >>
    ELSE findSpecKeys(getModelSpec(models[k]), MulticlassPreds)
         \o clsFieldSpecsFrom(models, k + 1)

RECURSIVE allowSparseModeFrom(_, _)
\* clsFieldSpecs.some((fs) => fs.vocab.length > 10) from index k on:
\* "true", "false", or "throws" when a field without vocabulary is reached first.
allowSparseModeFrom(specs, k) ==
    IF k > Len(specs) THEN "false"
    ELSE IF ~specs[k].vocab.some THEN "throws"
    ELSE IF Len(specs[k].vocab.val) > SPARSE_SWITCH_VOCAB THEN "true"
    ELSE allowSparseModeFrom(specs, k + 1)

\* Object.entries(labeledPredictions).filter(the field name starts with a
\* current model).
activeLabeledPreds(s, lp) ==
    SelectSeq(lp, LAMBDA e : \E k \in 1..Len(s.models) : StartsWith(e.key, s.models[k]))

\* renderImpl(): threw, or the rendered tables with the footer's flags.
renderImpl(s, lp) ==
    LET clsFieldSpecs == clsFieldSpecsFrom(s.models, 1)
        hasGroundTruth == \E k \in 1..Len(clsFieldSpecs) :
                              /\ clsFieldSpecs[k].parent.some
                              /\ clsFieldSpecs[k].parent.val \in currentDatasetSpec
        allowSparseMode == allowSparseModeFrom(clsFieldSpecs, 1)
        active == activeLabeledPreds(s, lp)
    IN  IF \/ allowSparseMode = "throws"
           \/ \E k \in 1..Len(active) : featureTableThrows(active[k].labelRows)
        THEN [threw |-> TRUE, tables |-> << >>, hasGroundTruth |-> FALSE,
              allowSparseMode |-> FALSE]
        ELSE [threw |-> FALSE,
              tables |-> [k \in 1..Len(active) |->
                             [fieldName |-> active[k].key,
                              table |-> renderFeatureTable(s, active[k].labelRows)]],
              hasGroundTruth |-> hasGroundTruth,
              allowSparseMode |-> (allowSparseMode = "true")]

(***************************************************************************)
(* The state machine of the classification module                          *)
(***************************************************************************)
(***************************************************************************)
(* SliceModule: the SliceService and GroupService contracts                *)
(***************************************************************************)
\* Number of rows of the dataset the slice editor works on; ids 1..NumIds.
NumIds == 2

\* At most this many slices besides the starred one.
MaxSlices == 2

Ids == 1..NumIds

\* STARRED_SLICE_NAME of slice_service.
STARRED_SLICE_NAME == <<"Starred">>

\* Two numeric features of the dataset: every row has a "len", only the
\* rows with an odd id have an "age".
LenFeature == <<"len">>
AgeFeature == <<"age">>
Features == {LenFeature, AgeFeature}
hasValue(id, feature) == feature = LenFeature \/ id % 2 = 1
valueOf(id, feature) ==
    IF feature = LenFeature THEN (IF id % 2 = 1 THEN 1 ELSE 7) ELSE 30 + id

\* NumericFeatureBins: per binned feature, its bin boundary.  The faceting
\* control reports the bins of both features with every change.
NoBins == [f \in {} |-> 0]
AllBins == [f \in Features |-> IF f = LenFeature THEN 5 ELSE 40]

\* The faceting control's choices (FacetsChange.features and .bins).
FacetChoices ==
    { [features |-> << >>, bins |-> AllBins],
      [features |-> << LenFeature >>, bins |-> AllBins],
      [features |-> << AgeFeature >>, bins |-> AllBins] }

\* The names a user types into the name box: the empty string or "s".
TypedNames == { << >>, << "s" >> }

\* A slice service state sl is the insertion-ordered list of its slices,
\* each [name, ids]; the starred slice is its first entry.
sliceNamesOf(sl) == [n \in 1..Len(sl) |-> sl[n].name]
hasSlice(sl, name) == \E n \in 1..Len(sl) : sl[n].name = name

\* sliceService.getSliceByName(name): the ids, or null for an unknown name.
getSliceByName(sl, name) ==
    IF hasSlice(sl, name)
    THEN [some |-> TRUE, val |-> sl[CHOOSE n \in 1..Len(sl) : sl[n].name = name].ids]
    ELSE [some |-> FALSE, val |-> {}]

\* sliceService.isInSlice(name, id): false for an unknown name.
isInSlice(sl, name, id) == id \in getSliceByName(sl, name).val

\* createSlice(name, ids): DuplicateNameError if the name exists; the starred
\* slice is never created; otherwise the slice is appended.
addNamedSlice(sl, name, ids) ==
    IF name = STARRED_SLICE_NAME THEN [outcome |-> "ok", slices |-> sl]
    ELSE IF hasSlice(sl, name) THEN [outcome |-> "DuplicateNameError", slices |-> sl]
    ELSE [outcome |-> "ok", slices |-> Append(sl, [name |-> name, ids |-> ids])]

\* A removal that empties the slice whatever ids are given.
removeIdsFromSlice_All(sl, name, ids) ==
    IF ~hasSlice(sl, name) THEN [outcome |-> "UnknownSliceError", slices |-> sl]
    ELSE [outcome |-> "ok",
          slices |-> [n \in 1..Len(sl) |->
                         IF sl[n].name = name THEN [sl[n] EXCEPT !.ids = {}]
                         ELSE sl[n]]]

\* addIds(name, ids): set union; UnknownSliceError for an unknown name.
addIdsToSlice(sl, name, ids) ==
    IF ~hasSlice(sl, name) THEN [outcome |-> "UnknownSliceError", slices |-> sl]
    ELSE [outcome |-> "ok",
          slices |-> [n \in 1..Len(sl) |->
                         IF sl[n].name = name
                         THEN [sl[n] EXCEPT !.ids = sl[n].ids \cup ids]
                         ELSE sl[n]]]

\* removeIds(name, ids): set difference; UnknownSliceError for an unknown name.
removeIdsFromSlice(sl, name, ids) ==
    IF ~hasSlice(sl, name) THEN [outcome |-> "UnknownSliceError", slices |-> sl]
    ELSE [outcome |-> "ok",
          slices |-> [n \in 1..Len(sl) |->
                         IF sl[n].name = name
                         THEN [sl[n] EXCEPT !.ids = sl[n].ids \ ids]
                         ELSE sl[n]]]

\* deleteSlice(name): ProtectedSliceError for the starred slice,
\* UnknownSliceError for an unknown name; otherwise the slice is removed.
deleteNamedSlice(sl, name) ==
    IF name = STARRED_SLICE_NAME THEN [outcome |-> "ProtectedSliceError", slices |-> sl]
    ELSE IF ~hasSlice(sl, name) THEN [outcome |-> "UnknownSliceError", slices |-> sl]
    ELSE [outcome |-> "ok", slices |-> SelectSeq(sl, LAMBDA e : e.name # name)]

\* The bin label of a value for the boundary b.
binLabel(v, b) == IF v < b THEN "<" \o ToString(b) ELSE ">=" \o ToString(b)

\* The group a row falls in for the feature: none if the row has no value
\* for it; the bin label if the feature is binned, else the value itself.
groupLabelOf(id, feature, bins) ==
    IF ~hasValue(id, feature) THEN [some |-> FALSE, val |-> << >>]
    ELSE [some |-> TRUE,
          val |-> feature \o <<":">> \o
                  << IF feature \in DOMAIN bins
                     THEN binLabel(valueOf(id, feature), bins[feature])
                     ELSE ToString(valueOf(id, feature)) >>]

RECURSIVE groupsFrom(_, _, _, _, _)
\* The groups of rows id..NumIds of the data, in order of first occurrence.
groupsFrom(rows, id, feature, bins, acc) ==
    IF id > NumIds THEN acc
    ELSE LET g == groupLabelOf(id, feature, bins)
         IN  IF id \notin rows \/ ~g.some
             THEN groupsFrom(rows, id + 1, feature, bins, acc)
             ELSE IF \E n \in 1..Len(acc) : acc[n].name = g.val
             THEN groupsFrom(rows, id + 1, feature, bins,
                             [n \in 1..Len(acc) |->
                                 IF acc[n].name = g.val
                                 THEN [acc[n] EXCEPT !.ids = acc[n].ids \cup {id}]
                                 ELSE acc[n]])
             ELSE groupsFrom(rows, id + 1, feature, bins,
                             Append(acc, [name |-> g.val, ids |-> {id}]))

\* groupService.groupExamplesByFeatures(bins, data, features): one entry per
\* non-empty group, keyed by the group's label.
groupExamplesByFeatures(bins, rows, features) ==
    IF Len(features) = 0 THEN << >>
    ELSE groupsFrom(rows, 1, features[1], bins, << >>)

(***************************************************************************)
(* SliceModule: the slice editor                                           *)
(***************************************************************************)
\* createButtonEnabled
createButtonEnabled(selIds, features, name) ==
    LET anyCheckboxChecked == Len(features) > 0
        sliceFromFilters == selIds = {} /\ anyCheckboxChecked
    IN  sliceFromFilters \/ (name.some /\ name.val # << >> /\ selIds # {})

\* lastCreatedSlice(): the last of the service's slice names.
lastCreatedSlice(sl) == sliceNamesOf(sl)[Len(sl)]

\* selectionService.selectedOrAllInputData: the selected rows, or all rows
\* when none is selected.
selectedOrAllInputData(selIds) == IF selIds = {} THEN Ids ELSE selIds

\* The ids passed for a group: every row of the data instead of the group's.
groupSliceIds_AllData(group, rows) == rows

\* The ids passed to addNamedSlice for a group: namedSlices[k].data.map(d => d.id).
groupSliceIds(group, rows) == group.ids

RECURSIVE addGroupsFrom(_, _, _, _, _)
\* The forEach over the groups[k..]: addNamedSlice for each; an error
\* raised by the service ends the loop (and the handler).
addGroupsFrom(sl, groups, k, prefix, rows) ==
    IF k > Len(groups) THEN [outcome |-> "ok", slices |-> sl]
    ELSE LET r == addNamedSlice(sl, prefix \o groups[k].name,
                                groupSliceIds(groups[k], rows))
         IN  IF r.outcome # "ok" THEN r
             ELSE addGroupsFrom(r.slices, groups, k + 1, prefix, rows)

\* makeSlicesFromAllLabelCombos()
makeSlicesFromAllLabelCombos(sl, selIds, bins, features, name) ==
    LET rows == selectedOrAllInputData(selIds)
        namedSlices == groupExamplesByFeatures(bins, rows, features)
        sliceNamePrefix == IF ~name.some THEN << >> ELSE name.val \o << " " >>
    IN  addGroupsFrom(sl, namedSlices, 1, sliceNamePrefix, rows)

\* The row of the starred slice offers every action.
offersDelete_Always(name) == TRUE

\* renderSliceRow: a row offers "delete" unless it is the starred slice's,
\* which offers "clear" instead.
offersDelete(name) == name # STARRED_SLICE_NAME

VARIABLES
    slices,             \* the SliceService: its slices in insertion order
    selectedSliceName,  \* sliceService.selectedSliceName (nullable)
    sliceName,          \* SliceModule.sliceName (nullable)
    sliceByFeatures,    \* SliceModule.sliceByFeatures
    sliceByBins,        \* SliceModule.sliceByBins
    lastCall            \* the editor's last service call: the operation, whether on
                        \* the starred slice, and the service's answer

sliceVars == <<slices, selectedSliceName, sliceName, sliceByFeatures,
               sliceByBins, lastCall>>

VARIABLES
    compareExamplesEnabled,  \* appState.compareExamplesEnabled
    currentModels,           \* appState.currentModels
    selectedColorOption,     \* colorService.selectedColorOption
    pinnedInput,             \* pinnedSelectionService.primarySelectedInputData (a row id, NoRow if none)
    selectedInput,           \* selectionService.primarySelectedInputData (a row id, NoRow if none)
    dataVals,                \* dataService.dataVals: per row, whether its predictions are stored
    sparseMode,              \* ClassificationModule.sparseMode
    labeledPredictions,      \* ClassificationModule.labeledPredictions, in key order
    raised,                  \* whether updateSelection / renderImpl raised in the last reaction
    rendered,                \* the outcome of renderImpl in the last reaction
    switchShown              \* whether the document shows the sparse-mode switch

clsVars == <<compareExamplesEnabled, currentModels, selectedColorOption, pinnedInput,
             selectedInput, dataVals, sparseMode, labeledPredictions, raised, rendered,
             switchShown>>

\* The reactive inputs in the current state.
Inputs ==
    [compare |-> compareExamplesEnabled, models |-> currentModels,
     color |-> selectedColorOption, pinned |-> pinnedInput,
     selected |-> selectedInput, data |-> dataVals, sparse |-> sparseMode]

\* The reaction of connectedCallback to a change of the inputs to s:
\* updateSelection() runs, then the element renders.  A render that raises
\* leaves the previous document, and with it the switch, in place.
React(next) ==
    \E s \in {next} \ {Inputs} :
    \E u \in {updateSelection(s, labeledPredictions)} :
    \E r \in {renderImpl(s, u.lp)} :
        /\ compareExamplesEnabled' = s.compare
        /\ currentModels' = s.models
        /\ selectedColorOption' = s.color
        /\ pinnedInput' = s.pinned
        /\ selectedInput' = s.selected
        /\ dataVals' = s.data
        /\ sparseMode' = s.sparse
        /\ labeledPredictions' = u.lp
        /\ raised' = [updateSelection |-> u.threw, renderImpl |-> r.threw]
        /\ rendered' = r
        /\ switchShown' = IF r.threw THEN switchShown ELSE r.allowSparseMode
        /\ UNCHANGED sliceVars

InitInputs ==
    [compare |-> FALSE, models |-> << M1 >>,
     color |-> [name |-> <<"None">>, range |-> <<"grey">>],
     pinned |-> NoRow, selected |-> NoRow,
     data |-> [id \in RowIds |-> FALSE], sparse |-> FALSE]

\* After construction and connectedCallback (reactImmediately runs
\* updateSelection once on the empty labeledPredictions).
ClsInit ==
    LET s == InitInputs
        u == updateSelection(s, << >>)
        r == renderImpl(s, u.lp)
    IN  /\ compareExamplesEnabled = s.compare
        /\ currentModels = s.models
        /\ selectedColorOption = s.color
        /\ pinnedInput = s.pinned
        /\ selectedInput = s.selected
        /\ dataVals = s.data
        /\ sparseMode = s.sparse
        /\ labeledPredictions = u.lp
        /\ raised = [updateSelection |-> u.threw, renderImpl |-> r.threw]
        /\ rendered = r
        /\ switchShown = r.allowSparseMode

SetCompareExamples == React([Inputs EXCEPT !.compare = ~compareExamplesEnabled])

SetCurrentModels == \E ms \in ModelLists : React([Inputs EXCEPT !.models = ms])

SetColorOption == \E c \in ColorOptions : React([Inputs EXCEPT !.color = c])

PinInput == \E id \in RowIds \cup {NoRow} : React([Inputs EXCEPT !.pinned = id])

SelectInput == \E id \in RowIds \cup {NoRow} : React([Inputs EXCEPT !.selected = id])

\* Predictions of a row arrive in, or are dropped from, the data service.
DataValsChange == \E id \in RowIds : React([Inputs EXCEPT !.data[id] = ~dataVals[id]])

\* onClickSwitch: the switch is in the document only if the last view has it.
OnClickSwitch ==
    /\ switchShown
    /\ React([Inputs EXCEPT !.sparse = ~sparseMode])

ClsNext ==
    \/ SetCompareExamples
    \/ SetCurrentModels
    \/ SetColorOption
    \/ PinInput
    \/ SelectInput
    \/ DataValsChange
    \/ OnClickSwitch

\* After construction of the slice editor: only the starred slice, empty.
SliceInit ==
    /\ slices = << [name |-> STARRED_SLICE_NAME, ids |-> {}] >>
    /\ selectedSliceName = NoneSeq
    /\ sliceName = NoneSeq
    /\ sliceByFeatures = << >>
    /\ sliceByBins = NoBins
    /\ lastCall = [op |-> "none", starred |-> FALSE, outcome |-> "ok"]

\* facetsChange: the faceting control reports its features and bins.
FacetsChange ==
    /\ \E f \in FacetChoices :
          /\ <<f.features, f.bins>> # <<sliceByFeatures, sliceByBins>>
          /\ sliceByFeatures' = f.features
          /\ sliceByBins' = f.bins
    /\ UNCHANGED <<slices, selectedSliceName, sliceName, lastCall>>
    /\ UNCHANGED clsVars

\* onInputChange: the name box's text becomes sliceName.
OnInputChange ==
    /\ \E v \in TypedNames : SomeSeq(v) # sliceName /\ sliceName' = SomeSeq(v)
    /\ UNCHANGED <<slices, selectedSliceName, sliceByFeatures, sliceByBins, lastCall>>
    /\ UNCHANGED clsVars

\* Room for the slices a create action may add.
RoomToCreate(selectedIds) ==
    Len(slices) - 1
      + (IF Len(sliceByFeatures) > 0
         THEN Len(groupExamplesByFeatures(sliceByBins,
                     selectedOrAllInputData(selectedIds), sliceByFeatures))
         ELSE 1) <= MaxSlices

\* handleClickCreate(), with selectionService.selectedIds = selectedIds.
HandleClickCreate(selectedIds) ==
    /\ RoomToCreate(selectedIds)
    /\ IF Len(sliceByFeatures) > 0
       THEN \E r \in {makeSlicesFromAllLabelCombos(slices, selectedIds, sliceByBins,
                                                   sliceByFeatures, sliceName)} :
              /\ slices' = r.slices
              /\ lastCall' = [op |-> "createSlices", starred |-> FALSE,
                              outcome |-> r.outcome]
              /\ IF r.outcome = "ok"
                 THEN /\ selectedSliceName' = SomeSeq(lastCreatedSlice(r.slices))
                      /\ sliceName' = NoneSeq
                      /\ sliceByFeatures' = << >>
                 ELSE UNCHANGED <<selectedSliceName, sliceName, sliceByFeatures>>
       ELSE \E r \in {IF sliceName.some
                      THEN addNamedSlice(slices, sliceName.val, selectedIds)
                      ELSE [outcome |-> "ok", slices |-> slices]} :
              /\ slices' = r.slices
              /\ lastCall' = [op |-> "createSlice", starred |-> FALSE,
                              outcome |-> r.outcome]
              /\ IF r.outcome = "ok"
                 THEN /\ selectedSliceName' = sliceName
                      /\ sliceName' = NoneSeq
                      /\ sliceByFeatures' = << >>
                 ELSE UNCHANGED <<selectedSliceName, sliceName, sliceByFeatures>>
    /\ UNCHANGED sliceByBins
    /\ UNCHANGED clsVars

\* onClickCreate: a click on the create button, which is disabled unless
\* createButtonEnabled.
OnClickCreate ==
    \E selectedIds \in SUBSET Ids :
        /\ createButtonEnabled(selectedIds, sliceByFeatures, sliceName)
        /\ HandleClickCreate(selectedIds)

\* onKeyUp: Enter in the name box runs onClickCreate.
OnKeyUpEnter == \E selectedIds \in SUBSET Ids : HandleClickCreate(selectedIds)

\* itemClicked: selects the slice, or deselects it when it is selected.
ItemClicked ==
    /\ \E n \in 1..Len(slices) :
          selectedSliceName' = IF selectedSliceName = SomeSeq(slices[n].name)
                               THEN NoneSeq ELSE SomeSeq(slices[n].name)
    /\ UNCHANGED <<slices, sliceName, sliceByFeatures, sliceByBins, lastCall>>
    /\ UNCHANGED clsVars

\* appendClicked: adds the selected ids to the slice of the row.
AppendClicked ==
    /\ \E selectedIds \in SUBSET Ids : \E n \in 1..Len(slices) :
       \E r \in {addIdsToSlice(slices, slices[n].name, selectedIds)} :
          /\ slices' = r.slices
          /\ lastCall' = [op |-> "addIds", starred |-> slices[n].name = STARRED_SLICE_NAME,
                          outcome |-> r.outcome]
    /\ UNCHANGED <<selectedSliceName, sliceName, sliceByFeatures, sliceByBins>>
    /\ UNCHANGED clsVars

\* deleteClicked, on a row that offers it.
DeleteClicked ==
    /\ \E n \in 1..Len(slices) :
       \E r \in {deleteNamedSlice(slices, slices[n].name)} :
          /\ offersDelete(slices[n].name)
          /\ slices' = r.slices
          /\ lastCall' = [op |-> "delete", starred |-> slices[n].name = STARRED_SLICE_NAME,
                          outcome |-> r.outcome]
    /\ UNCHANGED <<selectedSliceName, sliceName, sliceByFeatures, sliceByBins>>
    /\ UNCHANGED clsVars

\* clearClicked, on the row of the starred slice: removes all its ids.
ClearClicked ==
    /\ \E n \in 1..Len(slices) :
       \E r \in {removeIdsFromSlice(slices, slices[n].name,
                                    getSliceByName(slices, slices[n].name).val)} :
          /\ ~offersDelete(slices[n].name)
          /\ slices' = r.slices
          /\ lastCall' = [op |-> "clear", starred |-> slices[n].name = STARRED_SLICE_NAME,
                          outcome |-> r.outcome]
    /\ UNCHANGED <<selectedSliceName, sliceName, sliceByFeatures, sliceByBins>>
    /\ UNCHANGED clsVars

SliceNext ==
    \/ FacetsChange
    \/ OnInputChange
    \/ OnClickCreate
    \/ OnKeyUpEnter
    \/ ItemClicked
    \/ AppendClicked
    \/ DeleteClicked
    \/ ClearClicked

vars == <<clsVars, sliceVars>>

Init == ClsInit /\ SliceInit

\* The classification module reacting to its inputs.
Spec == Init /\ [][ClsNext]_vars

\* The slice editor handling its events.
SliceSpec == Init /\ [][SliceNext]_vars


(***************************************************************************)
(* Properties of the classification module                                 *)
(***************************************************************************)
\* The rows given to parseResult in the current state.
data == selectionData(Inputs)

HeadsOf(model) == findSpecKeys(getModelSpec(model), MulticlassPreds)

\* The score vector of the k-th input for a head (nullable).
ScoresOf(model, field, k) == getVal(Inputs, data[k], getColumnName(model, field.key, ""))

\* The labels of a head: its vocabulary, or the stringified class indices.
LabelsOf(model, field) ==
    IF field.vocab.some THEN field.vocab.val
    ELSE indexLabels(Len(ScoresOf(model, field, 1).val))

\* The DisplayInfo list a head's table holds for a label (empty if absent).
RowsOfLabel(labelRows, label) ==
    IF \E n \in 1..Len(labelRows) : labelRows[n].label = label
    THEN labelRows[CHOOSE n \in 1..Len(labelRows) : labelRows[n].label = label].rows
    ELSE << >>

\* The DisplayInfos of a list that were made from the k-th input.
RowsFromInput(rows, k) == SelectSeq(rows, LAMBDA r : r.inputIdx = k)

\* The stored entry of a head, if any.
StoredHas(key) == HasKey(labeledPredictions, key)
Stored(key) ==
    labeledPredictions[CHOOSE n \in 1..Len(labeledPredictions) :
                           labeledPredictions[n].key = key].labelRows

LabelsIn(labelRows) == [n \in 1..Len(labelRows) |-> labelRows[n].label]

KeyP == getColumnName(M1, <<"p">>, "")
KeyQ == getColumnName(M2, <<"q">>, "")

C2_NullScores ==
    \A model \in Models :
      \A res \in {IF Len(data) > 0 THEN parseResult(Inputs, model, data)
                  ELSE [threw |-> TRUE, val |-> << >>]} :
        (~res.threw) =>
          \A h \in 1..Len(HeadsOf(model)) : \A k \in 1..Len(data) :
            LET field == HeadsOf(model)[h]
                scores == ScoresOf(model, field, k)
                labels == LabelsOf(model, field)
            IN  (~scores.some) =>
                  \A i \in 1..Len(labels) :
                    LET emitted == RowsFromInput(
                                       RowsOfLabel(res.val[h].labelRows, labels[i]), k)
                    IN  IF ~sparseMode
                        THEN /\ Len(emitted) = 1
                             /\ emitted[1].value = 0
                             /\ ~emitted[1].isPredicted
                             /\ ~emitted[1].isTruth
                             /\ emitted[1].color = NoColor
                        ELSE Len(emitted) = 0

\* Sparse mode is off, the pinned row has scores and the selected row has
\* none, and the stored table holds the zero placeholder of the selected row
\* next to the pinned row's score under label a.
C2_Witness ==
    /\ ~sparseMode
    /\ Len(data) = 2
    /\ dataVals[data[1]] /\ ~dataVals[data[2]]
    /\ ~raised.updateSelection
    /\ StoredHas(KeyP)
    /\ Len(RowsOfLabel(Stored(KeyP), "a")) = 2
    /\ RowsOfLabel(Stored(KeyP), "a")[2] = nullDisplayInfo(2)

C3_DeltaForEveryLabel ==
    (Len(data) = 2 /\ ~raised.updateSelection /\ ~raised.renderImpl) =>
      \A m \in 1..Len(currentModels) : \A h \in 1..Len(HeadsOf(currentModels[m])) :
        LET model == currentModels[m]
            field == HeadsOf(model)[h]
            pinned == ScoresOf(model, field, 1)
            selected == ScoresOf(model, field, 2)
            labels == LabelsOf(model, field)
        IN  (pinned.some /\ selected.some) =>
              \A t \in 1..Len(rendered.tables) :
                (rendered.tables[t].fieldName = getColumnName(model, field.key, "")) =>
                  \A n \in 1..Len(rendered.tables[t].table.data) :
                    LET row == rendered.tables[t].table.data[n]
                    IN  \A i \in 1..Len(labels) :
                          (labels[i] = row.label) =>
                            row.delta = << Abs(pinned.val[i] - selected.val[i]) >>

\* C4 (as claimed): neither updateSelection/parseResult nor
\* renderImpl/renderFeatureTable ever raises an error.
C4_NeverRaises == (~raised.updateSelection) /\ (~raised.renderImpl)

\* C5 (as claimed): after every update that ran to its end, the stored
\* labeledPredictions is exactly what parseResult computes from the current
\* inputs alone (so it holds no entry of a model that is not current).
C5_NeverCached ==
    (~raised.updateSelection) =>
        labeledPredictions = updateSelection(Inputs, << >>).lp

\* C10 (as claimed): the list given to parseResult is the pinned row then
\* the selected row when both are present; then every label's DisplayInfo
\* list holds the pinned row's value at position 0 and, where it has a
\* position 1, the selected row's there; with no pinned and no selected row
\* labeledPredictions is empty.
C10_PinnedThenSelected ==
    /\ (pinnedInput = NoRow /\ selectedInput = NoRow) => labeledPredictions = << >>
    /\ Len(data) <= 2
    /\ (compareExamplesEnabled /\ pinnedInput # NoRow /\ selectedInput # NoRow)
          => data = << pinnedInput, selectedInput >>
    /\ (Len(data) = 2 /\ ~raised.updateSelection) =>
         \A m \in 1..Len(currentModels) : \A h \in 1..Len(HeadsOf(currentModels[m])) :
           LET model == currentModels[m]
               field == HeadsOf(model)[h]
               labelRows == Stored(getColumnName(model, field.key, ""))
               scoreAt(k, i) == IF ScoresOf(model, field, k).some
                                THEN ScoresOf(model, field, k).val[i] ELSE 0
               labels == LabelsOf(model, field)
           IN  \A n \in 1..Len(labelRows) : \A i \in 1..Len(labels) :
                 (labels[i] = labelRows[n].label) =>
                   /\ labelRows[n].rows[1].inputIdx = 1
                   /\ labelRows[n].rows[1].value = scoreAt(1, i)
                   /\ Len(labelRows[n].rows) >= 2 =>
                        /\ labelRows[n].rows[2].inputIdx = 2
                        /\ labelRows[n].rows[2].value = scoreAt(2, i)


\* The names for which a head's DisplayInfos are colored: its predicted-class
\* column, its correctness column and its parent feature.
ColorableNames(model, field) ==
    {getColumnName(model, field.key, PREDICTED_CLASS),
     getColumnName(model, field.key, CORRECT)}
      \cup (IF field.parent.some THEN {field.parent.val} ELSE {})

\* The color the claim gives a DisplayInfo of the label at index i (one-based).
ClaimedColor(model, field, row, i) ==
    IF selectedColorOption.name \notin ColorableNames(model, field) THEN NoColor
    ELSE IF selectedColorOption.name = getColumnName(model, field.key, CORRECT)
         THEN selectedColorOption.range[IF row.isTruth THEN 2 ELSE 1]
         ELSE selectedColorOption.range[i]

\* C11 (as claimed): in parseResult every DisplayInfo has a color if and only
\* if the color option's name is the head's predicted-class column, its
\* correctness column or its parent feature; for the correctness column the
\* color is entry 1 of the scale's range if isTruth and entry 0 otherwise, for
\* the other two it is the range's entry at the label's class index.
C11_ColorIffColorable ==
    \A model \in Models :
      \A res \in {IF Len(data) > 0 THEN parseResult(Inputs, model, data)
                  ELSE [threw |-> TRUE, val |-> << >>]} :
        (~res.threw) =>
          \A h \in 1..Len(HeadsOf(model)) :
            LET field == HeadsOf(model)[h]
                labels == LabelsOf(model, field)
            IN  \A i \in 1..Len(labels) :
                  LET rows == RowsOfLabel(res.val[h].labelRows, labels[i])
                  IN  \A n \in 1..Len(rows) :
                        /\ (rows[n].color # NoColor)
                             <=> (selectedColorOption.name \in ColorableNames(model, field))
                        /\ rows[n].color = ClaimedColor(model, field, rows[n], i)

\* C11 (amended): the rule holds for the DisplayInfos made from an input
\* whose scores are not null: such a DisplayInfo has a color if and only if
\* the color option's name is one of the head's three colorable names, the
\* color being entry 1 / entry 0 of the range by isTruth for the correctness
\* column and the entry at the class index otherwise.  The placeholder made
\* for an input whose scores are null has no color under any color option.
C11_ColorOfScoredRows ==
    \A model \in Models :
      \A res \in {IF Len(data) > 0 THEN parseResult(Inputs, model, data)
                  ELSE [threw |-> TRUE, val |-> << >>]} :
        (~res.threw) =>
          \A h \in 1..Len(HeadsOf(model)) :
            LET field == HeadsOf(model)[h]
                labels == LabelsOf(model, field)
            IN  \A i \in 1..Len(labels) :
                  LET rows == RowsOfLabel(res.val[h].labelRows, labels[i])
                  IN  \A n \in 1..Len(rows) :
                        IF ScoresOf(model, field, rows[n].inputIdx).some
                        THEN /\ (rows[n].color # NoColor)
                                  <=> (selectedColorOption.name
                                         \in ColorableNames(model, field))
                             /\ rows[n].color = ClaimedColor(model, field, rows[n], i)
                        ELSE rows[n].color = NoColor

\* The color option is the correctness column of head p, rows 1 (truth a,
\* scored) and 2 (no scores yet) are the inputs: under label a row 1's
\* DisplayInfo is the truth and has the range's entry 1, row 2's placeholder
\* has no color; under label c, at class index 2, row 1 has entry 0.
C11_Witness ==
    /\ selectedColorOption.name = getColumnName(M1, <<"p">>, CORRECT)
    /\ data = << 1, 2 >>
    /\ dataVals[1] /\ ~dataVals[2]
    /\ ~sparseMode
    /\ ~raised.updateSelection
    /\ StoredHas(KeyP)
    /\ RowsOfLabel(Stored(KeyP), "a")[1].isTruth
    /\ RowsOfLabel(Stored(KeyP), "a")[1].color = "right"
    /\ RowsOfLabel(Stored(KeyP), "a")[2].color = NoColor
    /\ RowsOfLabel(Stored(KeyP), "c")[1].color = "wrong"


\* The input (position in the list given to parseResult) whose score the
\* column at position j of a table's column names shows: with two inputs the
\* pinned one (1) under the second name and the selected one (2) under the
\* third; with a single input that input.
ColumnInput(j) == IF Len(data) = 2 THEN j - 1 ELSE 1

\* C14 (as claimed): in every table that renderFeatureTable produces, each
\* label's row has exactly as many cells as there are column names, and each
\* score cell holds the score of its column's input (a selected row's score
\* is never under the pinned column), with sparse mode on as well as off.
\* Stated after an update and a render that did not raise.
C14_CellsMatchColumns ==
    ((~raised.updateSelection) /\ ~raised.renderImpl) =>
      \A t \in 1..Len(rendered.tables) :
        LET table == rendered.tables[t].table
        IN  \A n \in 1..Len(table.data) :
              LET row == table.data[n]
              IN  /\ rowLength(row) = Len(table.columnNames)
                  /\ \A c \in 1..Len(row.cells) :
                       row.cells[c].inputIdx = ColumnInput(c + 1)


(***************************************************************************)
(* Properties of the slice editor                                          *)
(***************************************************************************)
StarredIds == getSliceByName(slices, STARRED_SLICE_NAME)

\* C7: the starred slice always exists and is listed (first); deleteSlice on
\* the starred name fails with ProtectedSliceError and leaves the slices
\* unchanged; the editor never calls delete for the starred slice, only
\* clear; and clear (removeIds with all its current ids) succeeds and leaves
\* the starred slice present with no ids.
C7_StarredProtected ==
    /\ Len(slices) >= 1 /\ slices[1].name = STARRED_SLICE_NAME
    /\ Cardinality({n \in 1..Len(slices) : slices[n].name = STARRED_SLICE_NAME}) = 1
    /\ deleteNamedSlice(slices, STARRED_SLICE_NAME)
          = [outcome |-> "ProtectedSliceError", slices |-> slices]
    /\ (lastCall.op = "delete") => ~lastCall.starred
    /\ (lastCall.op = "clear") =>
          /\ lastCall.starred
          /\ lastCall.outcome = "ok"
          /\ StarredIds = [some |-> TRUE, val |-> {}]
    /\ LET r == removeIdsFromSlice(slices, STARRED_SLICE_NAME, StarredIds.val)
       IN  /\ r.outcome = "ok"
           /\ getSliceByName(r.slices, STARRED_SLICE_NAME) = [some |-> TRUE, val |-> {}]
           /\ sliceNamesOf(r.slices) = sliceNamesOf(slices)

\* The starred slice has just been cleared, next to two other slices that
\* kept their ids.
C7_Witness ==
    /\ lastCall = [op |-> "clear", starred |-> TRUE, outcome |-> "ok"]
    /\ StarredIds.val = {}
    /\ Len(slices) = 3
    /\ slices[2].ids # {} /\ slices[3].ids # {}

\* C8 (as claimed): for every existing slice and every id set S, addIds then
\* removeIds with S restores the slice's membership.
C8_RoundTripRestores ==
    \A n \in 1..Len(slices) : \A S \in SUBSET Ids :
        LET name == slices[n].name
            added == addIdsToSlice(slices, name, S)
            removed == removeIdsFromSlice(added.slices, name, S)
        IN  /\ added.outcome = "ok" /\ removed.outcome = "ok"
            /\ getSliceByName(removed.slices, name).val = slices[n].ids

\* C8 (amended): for every existing slice with membership M and every id
\* set S, addIds then removeIds with S leaves the slice with M \ S (so with
\* M exactly when S and M are disjoint), and leaves every other slice and
\* the order of the slices as they were.
C8_RoundTripRemoves ==
    \A n \in 1..Len(slices) : \A S \in SUBSET Ids :
        LET name == slices[n].name
            added == addIdsToSlice(slices, name, S)
            removed == removeIdsFromSlice(added.slices, name, S)
        IN  /\ added.outcome = "ok" /\ removed.outcome = "ok"
            /\ getSliceByName(added.slices, name).val = slices[n].ids \cup S
            /\ removed.slices = [slices EXCEPT ![n].ids = slices[n].ids \ S]
            /\ (S \cap slices[n].ids = {}) => removed.slices = slices

\* Ids have just been added to a slice that is not the starred one, and
\* the slice holds every row.
C8_Witness ==
    /\ lastCall = [op |-> "addIds", starred |-> FALSE, outcome |-> "ok"]
    /\ \E n \in 2..Len(slices) : slices[n].ids = Ids

\* The slices a grouping create adds to sl: the entries of the result past
\* those of sl.
CreatedBy(sl, r) == SubSeq(r.slices, Len(sl) + 1, Len(r.slices))

\* The rows of the data that have a value for the feature.
DefinedRows(rows, feature) == {id \in rows : hasValue(id, feature)}

\* The names makeSlicesFromAllLabelCombos generates for the data.
GeneratedNames(rows, feature, name) ==
    LET groups == groupExamplesByFeatures(AllBins, rows, << feature >>)
    IN  {(IF name.some THEN name.val \o << " " >> ELSE << >>) \o groups[k].name :
            k \in 1..Len(groups)}

C12_CreateOnlyWhenEnabled ==
    [][ (\E selectedIds \in SUBSET Ids : HandleClickCreate(selectedIds))
          => /\ OnClickCreate
             /\ \A n \in 1..Len(slices') : slices'[n].name # << >> ]_vars

\* C13 (as claimed): on every step of handleClickCreate with a facet feature
\* chosen, if the step created slices then the slice selected after it is one
\* of them, and if it created none then no slice that existed before becomes
\* selected by it.
C13_SelectsACreatedSlice ==
    [][ (Len(sliceByFeatures) > 0
           /\ \E selectedIds \in SUBSET Ids : HandleClickCreate(selectedIds))
          => LET created == {slices'[n].name : n \in (Len(slices) + 1)..Len(slices')}
             IN  IF created # {}
                 THEN selectedSliceName'.some /\ selectedSliceName'.val \in created
                 ELSE (selectedSliceName' # selectedSliceName)
                        => ~(selectedSliceName'.some
                               /\ hasSlice(slices, selectedSliceName'.val)) ]_vars

====
